---- MODULE Spec2Model ----
(***************************************************************************)
(* Model of brokkr's logging backbone (src/src/brokkr/logger.py):          *)
(*   - the queue listener  run_log_listener / handle_queued_log_record,    *)
(*     with its producers (workers attached by setup_worker_config) and    *)
(*     the supervisor that enqueues LOG_RECORD_SENTINEL or sets exit_event *)
(*   - the severity mapper determine_log_level.                            *)
(***************************************************************************)
EXTENDS Integers, Sequences, FiniteSets, TLC

(***************************************************************************)
(* Bounds of the model.                                                    *)
(***************************************************************************)
NumProducers == 2      \* concurrent workers putting records
MaxEvents == 3         \* records emitted, sentinels enqueued and queue
                       \* failures, all together
MaxPreload == 3        \* longest preloaded queue (records before the sentinel)
MaxVerboseInput == 6   \* determine_log_level is applied to -6 .. 6 (in halves)
MaxRegisters == 46     \* longest register list given to decode_sunsaver_data
MaxWorkerCalls == 3    \* calls made in one worker: set-ups and emitted records

(***************************************************************************)
(* Program constants.                                                      *)
(***************************************************************************)
MAX_VERBOSE == 3
MIN_VERBOSE == -3
CRITICAL == 50
ERROR == 40
WARNING == 30
INFO == 20
DEBUG == 10

VARIABLES
    log_queue,         \* the shared queue: items not yet taken, oldest first
    closed,            \* log_queue.close() was called by the listener
    joined,            \* log_queue.join_thread() was called by the listener
    pc,                \* position of the listener
    ret,               \* what the last handle_queued_log_record call returned
    outer_exit_event,  \* the threading.Event made by run_log_listener
    exit_event,        \* the caller's exit_event: "none" (not given), "clear", "set"
    dispatched,        \* records passed to lines 201-203, in order
    delivered,         \* records whose record_logger.handle() succeeded, in order
    late,              \* items reported "Record found in log queue past shutdown"
    log,               \* messages of the listener's own logger, in order
    shut_down,         \* logging.shutdown() was called
    raised,            \* exception that left run_log_listener ("" = none)
    next_seq,          \* per worker: number of records it has emitted
    sentinels,         \* sentinels enqueued so far
    faults,            \* queue failures so far
    enq,               \* history: every item enqueued, in arrival order
    put_after,         \* history: records enqueued after the sentinel was taken
    put_drain,         \* history: of those, the ones enqueued before the drain loop saw Empty
    put_open,          \* history: of those, the ones enqueued before the queue was closed
    drained,           \* history: the drain loop ended on queue.Empty
    verbose,           \* determine_log_level: the two inputs, in half units
    level,             \* determine_log_level: the two results (<<>> before the call)
    outer_given,       \* handle_queued_log_record got an outer_exit_event (not None)
    root_level,        \* worker: level of the root logger
    root_handlers,     \* worker: handlers of the root logger, in order added
    pkg_level,         \* worker: level of the logger PACKAGE_NAME (0 = NOTSET)
    w_queue,           \* worker: records its QueueHandlers put on the queue
    w_emitted,         \* worker history: every record a logger was asked to log
    w_setups,          \* worker history: filter_level of each setup_worker_config call
    objects,           \* renderer: the configuration objects in memory, by reference
    rendered,          \* renderer: reference returned by render_full_log_config ("" before)
    dirs,              \* renderer: directories created by os.makedirs
    r_in,              \* renderer: the arguments of the call, the template as passed
    s_in,              \* sunsaver: the register_data given to decode_sunsaver_data
    s_out,             \* sunsaver: the mapping returned (<<>> before the return)
    s_raised,          \* sunsaver: exception that left decode_sunsaver_data ("" = none)
    s_pc               \* sunsaver: "call" before the call, "done" after it

lvars == <<log_queue, closed, joined, pc, ret, outer_exit_event, exit_event,
           dispatched, delivered, late, log, shut_down, raised, next_seq,
           sentinels, faults, enq, put_after, put_drain, put_open, drained>>
fvars == <<verbose, level>>
wvars == <<root_level, root_handlers, pkg_level, w_queue, w_emitted, w_setups>>
cvars == <<objects, rendered, dirs, r_in>>
svars == <<s_in, s_out, s_raised, s_pc>>
xvars == <<outer_given, wvars, cvars, svars>>
vars == <<lvars, fvars, xvars>>

Producers == 1 .. NumProducers

\* LOG_RECORD_SENTINEL: one distinguished value, compared with "is"
Sentinel == [prod |-> 0, seq |-> 0, ok |-> TRUE]
\* A log record: who emitted it, its number, and whether dispatching it succeeds
Records == [prod : Producers, seq : 1 .. (MaxEvents + MaxPreload),
            ok : BOOLEAN]

Range(s) == {s[i] : i \in 1 .. Len(s)}

Range2(f) == {f[x] : x \in DOMAIN f}

\* records emitted so far by all workers
TotalEmitted == LET S[p \in 0 .. NumProducers] ==
                        IF p = 0 THEN 0 ELSE S[p - 1] + next_seq[p]
                IN  S[NumProducers]

\* what the workers, the supervisor and the queue have done so far
Events == TotalEmitted + sentinels + faults

\* messages of logging.getLogger(__name__) in logger.py
MsgStarting == "Starting logging system"
MsgShuttingDown == "Shutting down logging system"
MsgLate == "Record found in log queue past shutdown"
MsgCleanupError == "cleaning up log queue"
MsgShutDown == "Logging system shut down"
MsgDispatchWarning == "logging record"
MsgGetError == "getting from queue"

(***************************************************************************)
(* The queue.  get() takes the oldest item.                                *)
(***************************************************************************)
QueueGetPosLast(q) == Len(q)

QueueGetPos(q) == 1

QueueGet(q) == q[QueueGetPos(q)]

QueueRest(q) == [i \in 1 .. (Len(q) - 1) |->
                    IF i < QueueGetPos(q) THEN q[i] ELSE q[i + 1]]

(***************************************************************************)
(* State after the caller has built the queue and not yet started          *)
(* run_log_listener.                                                       *)
(***************************************************************************)
InitListener ==
    /\ log_queue = <<>>
    /\ closed = FALSE
    /\ joined = FALSE
    /\ pc = "config"
    /\ ret = "none"
    /\ outer_exit_event = FALSE
    /\ exit_event \in {"none", "clear"}
    /\ dispatched = <<>>
    /\ delivered = <<>>
    /\ late = <<>>
    /\ log = <<>>
    /\ shut_down = FALSE
    /\ raised = ""
    /\ next_seq = [p \in Producers |-> 0]
    /\ sentinels = 0
    /\ faults = 0
    /\ enq = <<>>
    /\ put_after = {}
    /\ put_drain = {}
    /\ put_open = {}
    /\ drained = FALSE
    /\ outer_given = TRUE

InitLevelIdle ==
    /\ verbose = <<0, 0>>
    /\ level = <<>>

\* a process that has not touched the logging module: the root logger is at
\* WARNING with no handler, no other logger has a level
InitWorkerIdle ==
    /\ root_level = WARNING
    /\ root_handlers = <<>>
    /\ pkg_level = 0
    /\ w_queue = <<>>
    /\ w_emitted = <<>>
    /\ w_setups = <<>>

\* no configuration object exists and nothing was rendered
InitRenderIdle ==
    /\ objects = <<>>
    /\ rendered = ""
    /\ dirs = {}
    /\ r_in = <<>>

\* decode_sunsaver_data is not called
InitSunsaverIdle ==
    /\ s_in = [kind |-> "none", registers |-> <<>>]
    /\ s_out = <<>>
    /\ s_raised = ""
    /\ s_pc = "idle"

InitIdle == InitWorkerIdle /\ InitRenderIdle /\ InitSunsaverIdle

Init == InitListener /\ InitLevelIdle /\ InitIdle

(***************************************************************************)
(* run_log_listener, lines 216-221: apply the configuration, log the       *)
(* start, create outer_exit_event, enter the loop.                         *)
(***************************************************************************)
Configure ==
    /\ pc = "config"
    /\ log' = Append(log, MsgStarting)
    /\ outer_exit_event' = FALSE
    /\ pc' = "get"
    /\ UNCHANGED <<log_queue, closed, joined, ret, exit_event, dispatched,
                   delivered, late, shut_down, raised, next_seq, sentinels,
                   faults, enq, put_after, put_drain, put_open, drained, fvars, xvars>>

(***************************************************************************)
(* handle_queued_log_record, lines 201-209: dispatch one record.  A        *)
(* failure is caught, a warning is logged, and the record is returned.     *)
(***************************************************************************)
DispatchRecordDrop(r) ==
    /\ UNCHANGED <<dispatched, delivered, log, raised>>
    /\ pc' = "check"

DispatchRecordRaise(r) ==
    /\ dispatched' = Append(dispatched, r)
    /\ IF r.ok
         THEN /\ delivered' = Append(delivered, r)
              /\ pc' = "check"
              /\ UNCHANGED <<log, raised>>
         ELSE /\ raised' = "Exception"
              /\ pc' = "done"
              /\ UNCHANGED <<delivered, log>>

DispatchRecord(r) ==
    /\ dispatched' = Append(dispatched, r)
    /\ IF r.ok
         THEN delivered' = Append(delivered, r) /\ UNCHANGED log
         ELSE log' = Append(log, MsgDispatchWarning) /\ UNCHANGED delivered
    /\ pc' = "check"
    /\ UNCHANGED raised

\* lines 166-167, 174-175, 201-209: the blocking get returns a record
GetRecord ==
    /\ pc = "get"
    /\ log_queue # <<>>
    /\ QueueGet(log_queue) # Sentinel
    /\ log_queue' = QueueRest(log_queue)
    /\ DispatchRecord(QueueGet(log_queue))
    /\ ret' = "record"
    /\ UNCHANGED <<closed, joined, outer_exit_event, exit_event, late,
                   shut_down, next_seq, sentinels, faults, enq, put_after,
                   put_drain, put_open, drained, fvars, xvars>>

\* line 176: outer_exit_event.set()
SignalShutdownCaller ==
    /\ exit_event' = "set"
    /\ UNCHANGED outer_exit_event

SignalShutdown ==
    /\ outer_exit_event' = TRUE
    /\ UNCHANGED exit_event

GetSentinelClose ==
    /\ pc = "get"
    /\ outer_given
    /\ log_queue # <<>>
    /\ QueueGet(log_queue) = Sentinel
    /\ log_queue' = QueueRest(log_queue)
    /\ SignalShutdown
    /\ log' = Append(log, MsgShuttingDown)
    /\ closed' = TRUE
    /\ pc' = "drain"
    /\ UNCHANGED <<joined, ret, dispatched, delivered, late,
                   shut_down, raised, next_seq, sentinels, faults, enq,
                   put_after, put_drain, put_open, drained, fvars, xvars>>

\* lines 175-177: the blocking get returns the sentinel; enter the drain loop
GetSentinel ==
    /\ pc = "get"
    /\ outer_given
    /\ log_queue # <<>>
    /\ QueueGet(log_queue) = Sentinel
    /\ log_queue' = QueueRest(log_queue)
    /\ SignalShutdown
    /\ log' = Append(log, MsgShuttingDown)
    /\ pc' = "drain"
    /\ UNCHANGED <<closed, joined, ret, dispatched, delivered, late,
                   shut_down, raised, next_seq, sentinels, faults, enq,
                   put_after, put_drain, put_open, drained, fvars, xvars>>

\* lines 175-176 when outer_exit_event is None: None has no set(), and the
\* AttributeError is raised in the else clause of the try, where nothing
\* catches it
GetSentinelNoEvent ==
    /\ pc = "get"
    /\ ~outer_given
    /\ log_queue # <<>>
    /\ QueueGet(log_queue) = Sentinel
    /\ log_queue' = QueueRest(log_queue)
    /\ raised' = "AttributeError"
    /\ pc' = "done"
    /\ UNCHANGED <<closed, joined, ret, outer_exit_event, exit_event,
                   dispatched, delivered, late, log, shut_down, next_seq,
                   sentinels, faults, enq, put_after, put_drain, put_open,
                   drained, fvars, xvars>>

\* lines 168-169, 211: queue.Empty after SLEEP_TICK_S (or InterruptedError);
\* nothing is done and None is returned
GetTimeoutShutdown ==
    /\ pc = "get"
    /\ log_queue = <<>>
    /\ ret' = "none"
    /\ pc' = "check"
    /\ closed' = TRUE
    /\ shut_down' = TRUE
    /\ UNCHANGED <<log_queue, joined, outer_exit_event, exit_event,
                   dispatched, delivered, late, log, raised, next_seq,
                   sentinels, faults, enq, put_after, put_drain, put_open, drained,
                   fvars, xvars>>

GetTimeout ==
    /\ pc = "get"
    /\ log_queue = <<>>
    /\ ret' = "none"
    /\ pc' = "check"
    /\ UNCHANGED <<log_queue, closed, joined, outer_exit_event, exit_event,
                   dispatched, delivered, late, log, shut_down, raised,
                   next_seq, sentinels, faults, enq, put_after, put_drain, put_open,
                   drained, fvars, xvars>>

\* lines 170-173, 211: any other exception of get() is logged; None is returned
GetError ==
    /\ pc = "get"
    /\ Events < MaxEvents
    /\ faults' = faults + 1
    /\ log' = Append(log, MsgGetError)
    /\ ret' = "none"
    /\ pc' = "check"
    /\ UNCHANGED <<log_queue, closed, joined, outer_exit_event, exit_event,
                   dispatched, delivered, late, shut_down, raised, next_seq,
                   sentinels, enq, put_after, put_drain, put_open, drained, fvars, xvars>>

\* lines 180-185: get(block=False) finds an item (a record or another
\* sentinel); it is reported as a warning and the loop repeats
DrainLateDispatch ==
    /\ pc = "drain"
    /\ log_queue # <<>>
    /\ log_queue' = QueueRest(log_queue)
    /\ dispatched' = Append(dispatched, QueueGet(log_queue))
    /\ delivered' = Append(delivered, QueueGet(log_queue))
    /\ UNCHANGED <<closed, joined, pc, ret, outer_exit_event, exit_event,
                   late, log, shut_down, raised, next_seq, sentinels, faults,
                   enq, put_after, put_drain, put_open, drained, fvars, xvars>>

DrainLate ==
    /\ pc = "drain"
    /\ log_queue # <<>>
    /\ log_queue' = QueueRest(log_queue)
    /\ late' = Append(late, QueueGet(log_queue))
    /\ log' = Append(log, MsgLate)
    /\ UNCHANGED <<closed, joined, pc, ret, outer_exit_event, exit_event,
                   dispatched, delivered, shut_down, raised, next_seq,
                   sentinels, faults, enq, put_after, put_drain, put_open, drained,
                   fvars, xvars>>

DrainEmptyResume ==
    /\ pc = "drain"
    /\ log_queue = <<>>
    /\ drained' = TRUE
    /\ pc' = "get"
    /\ UNCHANGED <<log_queue, closed, joined, ret, outer_exit_event,
                   exit_event, dispatched, delivered, late, log, shut_down,
                   raised, next_seq, sentinels, faults, enq, put_after,
                   put_drain, put_open, fvars, xvars>>

\* lines 186-187: get(block=False) raises queue.Empty; leave the drain loop
DrainEmpty ==
    /\ pc = "drain"
    /\ log_queue = <<>>
    /\ drained' = TRUE
    /\ pc' = "close"
    /\ UNCHANGED <<log_queue, closed, joined, ret, outer_exit_event,
                   exit_event, dispatched, delivered, late, log, shut_down,
                   raised, next_seq, sentinels, faults, enq, put_after,
                   put_drain, put_open, fvars, xvars>>

\* line 188: log_queue.close()
CloseQueueSkip ==
    /\ pc = "close"
    /\ pc' = "join"
    /\ UNCHANGED <<log_queue, closed, joined, ret, outer_exit_event,
                   exit_event, dispatched, delivered, late, log, shut_down,
                   raised, next_seq, sentinels, faults, enq, put_after,
                   put_drain, put_open, drained, fvars, xvars>>

CloseQueue ==
    /\ pc = "close"
    /\ closed' = TRUE
    /\ pc' = "join"
    /\ UNCHANGED <<log_queue, joined, ret, outer_exit_event, exit_event,
                   dispatched, delivered, late, log, shut_down, raised,
                   next_seq, sentinels, faults, enq, put_after, put_drain, put_open,
                   drained, fvars, xvars>>

\* line 189: log_queue.join_thread()
JoinThread ==
    /\ pc = "join"
    /\ joined' = TRUE
    /\ pc' = "shutdown"
    /\ UNCHANGED <<log_queue, closed, ret, outer_exit_event, exit_event,
                   dispatched, delivered, late, log, shut_down, raised,
                   next_seq, sentinels, faults, enq, put_after, put_drain, put_open,
                   drained, fvars, xvars>>

\* lines 190-193: get(block=False), close() or join_thread() raises; the
\* error is logged and the cleanup is abandoned
CleanupErrorRaise ==
    /\ pc \in {"drain", "close", "join"}
    /\ Events < MaxEvents
    /\ faults' = faults + 1
    /\ log' = Append(log, MsgCleanupError)
    /\ raised' = "Exception"
    /\ pc' = "done"
    /\ UNCHANGED <<log_queue, closed, joined, ret, outer_exit_event,
                   exit_event, dispatched, delivered, late, shut_down,
                   next_seq, sentinels, enq, put_after, put_drain, put_open,
                   drained, fvars, xvars>>

CleanupError ==
    /\ pc \in {"drain", "close", "join"}
    /\ Events < MaxEvents
    /\ faults' = faults + 1
    /\ log' = Append(log, MsgCleanupError)
    /\ pc' = "shutdown"
    /\ UNCHANGED <<log_queue, closed, joined, ret, outer_exit_event,
                   exit_event, dispatched, delivered, late, shut_down,
                   raised, next_seq, sentinels, enq, put_after, put_drain, put_open,
                   drained, fvars, xvars>>

\* lines 197-199: StopIteration when outer_exit_event is None, else the call
\* returns None
ShutdownReturnRaise ==
    /\ raised' = "StopIteration"
    /\ pc' = "done"
    /\ UNCHANGED ret

ShutdownReturn ==
    IF outer_given
      THEN /\ ret' = "none"
           /\ pc' = "check"
           /\ UNCHANGED raised
      ELSE /\ raised' = "StopIteration"
           /\ pc' = "done"
           /\ UNCHANGED ret

\* lines 195-199: log the end of the shutdown, logging.shutdown(), return
Shutdown ==
    /\ pc = "shutdown"
    /\ log' = Append(log, MsgShutDown)
    /\ shut_down' = TRUE
    /\ ShutdownReturn
    /\ UNCHANGED <<log_queue, closed, joined, outer_exit_event, exit_event,
                   dispatched, delivered, late, next_seq, sentinels, faults,
                   enq, put_after, put_drain, put_open, drained, fvars, xvars>>

(***************************************************************************)
(* brokkr.utils.misc.run_periodic (lines 223-226 call it with period_s=0): *)
(* the loop ends once outer_exit_event is set, or at a call that returned  *)
(* without an item while exit_event is set; otherwise it calls again.      *)
(***************************************************************************)
LoopExits ==
    \/ outer_exit_event
    \/ (ret = "none" /\ exit_event = "set")

LoopCheckExit ==
    /\ pc = "check"
    /\ LoopExits
    /\ pc' = "done"
    /\ UNCHANGED <<log_queue, closed, joined, ret, outer_exit_event,
                   exit_event, dispatched, delivered, late, log, shut_down,
                   raised, next_seq, sentinels, faults, enq, put_after,
                   put_drain, put_open, drained, fvars, xvars>>

LoopCheckAgain ==
    /\ pc = "check"
    /\ ~LoopExits
    /\ pc' = "get"
    /\ UNCHANGED <<log_queue, closed, joined, ret, outer_exit_event,
                   exit_event, dispatched, delivered, late, log, shut_down,
                   raised, next_seq, sentinels, faults, enq, put_after,
                   put_drain, put_open, drained, fvars, xvars>>

(***************************************************************************)
(* A worker attached by setup_worker_config emits a record: the            *)
(* QueueHandler puts it on the queue.  After the listener closed its end   *)
(* a put from another process still lands in the queue, a put from the     *)
(* listener's own process is refused.                                      *)
(***************************************************************************)
Put(p) ==
    /\ Events < MaxEvents
    /\ \E ok \in BOOLEAN :
         LET r == [prod |-> p, seq |-> next_seq[p] + 1, ok |-> ok]
         IN  /\ log_queue' = Append(log_queue, r)
             /\ enq' = Append(enq, r)
             /\ put_after' = IF outer_exit_event
                               THEN put_after \cup {r} ELSE put_after
             /\ put_drain' = IF pc = "drain"
                               THEN put_drain \cup {r} ELSE put_drain
             /\ put_open' = IF outer_exit_event /\ ~closed
                              THEN put_open \cup {r} ELSE put_open
    /\ next_seq' = [next_seq EXCEPT ![p] = @ + 1]
    /\ UNCHANGED <<closed, joined, pc, ret, outer_exit_event, exit_event,
                   dispatched, delivered, late, log, shut_down, raised,
                   sentinels, faults, drained, fvars, xvars>>

PutRefused(p) ==
    /\ Events < MaxEvents
    /\ closed
    /\ next_seq' = [next_seq EXCEPT ![p] = @ + 1]
    /\ UNCHANGED <<log_queue, closed, joined, pc, ret, outer_exit_event,
                   exit_event, dispatched, delivered, late, log, shut_down,
                   raised, sentinels, faults, enq, put_after, put_drain, put_open,
                   drained, fvars, xvars>>

(***************************************************************************)
(* The supervisor: it enqueues the sentinel, or sets the exit event it     *)
(* passed to run_log_listener.                                             *)
(***************************************************************************)
PutSentinel ==
    /\ Events < MaxEvents
    /\ sentinels' = sentinels + 1
    /\ log_queue' = Append(log_queue, Sentinel)
    /\ enq' = Append(enq, Sentinel)
    /\ UNCHANGED <<closed, joined, pc, ret, outer_exit_event, exit_event,
                   dispatched, delivered, late, log, shut_down, raised,
                   next_seq, faults, put_after, put_drain, put_open, drained, fvars, xvars>>

SetExitEvent ==
    /\ exit_event = "clear"
    /\ exit_event' = "set"
    /\ UNCHANGED <<log_queue, closed, joined, pc, ret, outer_exit_event,
                   dispatched, delivered, late, log, shut_down, raised,
                   next_seq, sentinels, faults, enq, put_after, put_drain, put_open,
                   drained, fvars, xvars>>

\* the steps of the listener that are not failures of the queue
Listener ==
    \/ Configure
    \/ GetRecord
    \/ GetSentinel
    \/ GetTimeout
    \/ DrainLate
    \/ DrainEmpty
    \/ CloseQueue
    \/ JoinThread
    \/ Shutdown
    \/ LoopCheckExit
    \/ LoopCheckAgain

Next ==
    \/ Configure
    \/ GetRecord
    \/ GetSentinel
    \/ GetTimeout
    \/ GetError
    \/ DrainLate
    \/ DrainEmpty
    \/ CloseQueue
    \/ JoinThread
    \/ CleanupError
    \/ Shutdown
    \/ LoopCheckExit
    \/ LoopCheckAgain
    \/ \E p \in Producers : Put(p)
    \/ \E p \in Producers : PutRefused(p)
    \/ PutSentinel
    \/ SetExitEvent

Spec == Init /\ [][Next]_vars

\* the listener is scheduled: a step it can take is eventually taken
SpecLive == Init /\ [][Next]_vars /\ WF_vars(Listener)

(***************************************************************************)
(* The listener started on a preloaded queue: records R1..Rn, then one     *)
(* sentinel; no worker and no supervisor runs, the queue does not fail.    *)
(***************************************************************************)
PreloadedQueues ==
    UNION {{[i \in 1 .. (n + 1) |->
                IF i = n + 1 THEN Sentinel
                ELSE [prod |-> f[i][1], seq |-> i, ok |-> f[i][2]]] :
            f \in [1 .. n -> Producers \X BOOLEAN]} : n \in 0 .. MaxPreload}

InitPre ==
    /\ log_queue \in PreloadedQueues
    /\ enq = log_queue
    /\ closed = FALSE
    /\ joined = FALSE
    /\ pc = "config"
    /\ ret = "none"
    /\ outer_exit_event = FALSE
    /\ exit_event \in {"none", "clear"}
    /\ dispatched = <<>>
    /\ delivered = <<>>
    /\ late = <<>>
    /\ log = <<>>
    /\ shut_down = FALSE
    /\ raised = ""
    /\ next_seq = [p \in Producers |-> 0]
    /\ sentinels = 1
    /\ faults = 0
    /\ put_after = {}
    /\ put_drain = {}
    /\ put_open = {}
    /\ drained = FALSE
    /\ outer_given = TRUE
    /\ InitLevelIdle
    /\ InitIdle

NextPre ==
    \/ Configure
    \/ GetRecord
    \/ GetSentinel
    \/ DrainEmpty
    \/ CloseQueue
    \/ JoinThread
    \/ Shutdown
    \/ LoopCheckExit
    \/ LoopCheckAgain

SpecPre == InitPre /\ [][NextPre]_vars

(***************************************************************************)
(* handle_queued_log_record called in a loop by a caller that passes no    *)
(* outer_exit_event (the default of line 162), with the workers and the    *)
(* supervisor running.                                                     *)
(***************************************************************************)
InitDirect ==
    /\ log_queue = <<>>
    /\ enq = <<>>
    /\ closed = FALSE
    /\ joined = FALSE
    /\ pc = "get"
    /\ ret = "none"
    /\ outer_exit_event = FALSE
    /\ exit_event = "none"
    /\ dispatched = <<>>
    /\ delivered = <<>>
    /\ late = <<>>
    /\ log = <<>>
    /\ shut_down = FALSE
    /\ raised = ""
    /\ next_seq = [p \in Producers |-> 0]
    /\ sentinels = 0
    /\ faults = 0
    /\ put_after = {}
    /\ put_drain = {}
    /\ put_open = {}
    /\ drained = FALSE
    /\ outer_given = FALSE
    /\ InitLevelIdle
    /\ InitIdle

NextDirect ==
    \/ GetRecord
    \/ GetSentinelNoEvent
    \/ GetTimeout
    \/ GetError
    \/ LoopCheckAgain
    \/ \E p \in Producers : Put(p)
    \/ PutSentinel

SpecDirect == InitDirect /\ [][NextDirect]_vars

(***************************************************************************)
(* determine_log_level, lines 27-37 and 55-61.  The verbosity is a number  *)
(* (verbose - quiet of the command line, possibly fractional): the model   *)
(* holds it in half units, h stands for h/2.                               *)
(***************************************************************************)
\* Python's round(): to the nearest integer, a tie to the even neighbour
PyRound(h) ==
    IF h % 2 = 0
      THEN h \div 2
      ELSE LET lo == (h - 1) \div 2
           IN  IF lo % 2 = 0 THEN lo ELSE lo + 1

LOG_LEVEL_NoSilent ==
    [v \in MIN_VERBOSE .. MAX_VERBOSE |->
        CASE v = -3 -> CRITICAL
          [] v = -2 -> CRITICAL
          [] v = -1 -> ERROR
          [] v = 0 -> WARNING
          [] v = 1 -> INFO
          [] v = 2 -> DEBUG
          [] v = 3 -> 2]

LOG_LEVEL ==
    [v \in MIN_VERBOSE .. MAX_VERBOSE |->
        CASE v = -3 -> 99
          [] v = -2 -> CRITICAL
          [] v = -1 -> ERROR
          [] v = 0 -> WARNING
          [] v = 1 -> INFO
          [] v = 2 -> DEBUG
          [] v = 3 -> 2]

determine_log_level_swapped(h) ==
    LET v == PyRound(h)
    IN  IF v > MAX_VERBOSE THEN LOG_LEVEL[MIN_VERBOSE]
        ELSE IF v < MIN_VERBOSE THEN LOG_LEVEL[MAX_VERBOSE]
        ELSE LOG_LEVEL[v]

determine_log_level(h) ==
    LET v == PyRound(h)
    IN  IF v > MAX_VERBOSE THEN LOG_LEVEL[MAX_VERBOSE]
        ELSE IF v < MIN_VERBOSE THEN LOG_LEVEL[MIN_VERBOSE]
        ELSE LOG_LEVEL[v]

VerboseInputs == (-2 * MaxVerboseInput) .. (2 * MaxVerboseInput)

InitLevel ==
    /\ verbose \in VerboseInputs \X VerboseInputs
    /\ level = <<>>
    /\ InitListener
    /\ exit_event = "none"
    /\ InitIdle

\* two calls of determine_log_level, one on each input
DetermineLogLevel ==
    /\ level = <<>>
    /\ level' = <<determine_log_level(verbose[1]),
                  determine_log_level(verbose[2])>>
    /\ UNCHANGED <<verbose, lvars, xvars>>

NextLevel == DetermineLogLevel

SpecLevel == InitLevel /\ [][NextLevel]_vars

(***************************************************************************)
(* A worker: the logging state of one process, setup_basic_logging (lines  *)
(* 64-84), setup_worker_config (lines 151-154) and the records its loggers *)
(* are asked to log.                                                       *)
(***************************************************************************)
\* loggers of the worker: the root, the package logger, a module logger
\* below it, and a logger outside the package
LoggerNames == {"root", "brokkr", "brokkr.logger", "other"}

EmitLevels == {DEBUG, INFO, WARNING}

FilterLevels == {DEBUG, INFO}

WorkerCalls == Len(w_setups) + Len(w_emitted)

\* Logger.getEffectiveLevel: the first level that is set on the way from
\* the logger up to the root; only the root and PACKAGE_NAME get a level here
OwnLevel(name) ==
    IF name \in {"brokkr", "brokkr.logger"} THEN pkg_level ELSE 0

EffectiveLevel(name) ==
    IF OwnLevel(name) # 0 THEN OwnLevel(name) ELSE root_level

\* Logger.callHandlers with propagate on: every handler of the root gets the
\* record; each QueueHandler (level NOTSET) puts it on the queue
RECURSIVE QueuePuts(_, _)
QueuePuts(handlers, rec) ==
    IF handlers = <<>> THEN <<>>
    ELSE IF Head(handlers) = "queue"
           THEN <<rec>> \o QueuePuts(Tail(handlers), rec)
           ELSE QueuePuts(Tail(handlers), rec)

InitWorker ==
    /\ InitListener
    /\ exit_event = "none"
    /\ InitLevelIdle
    /\ InitWorkerIdle
    /\ InitRenderIdle
    /\ InitSunsaverIdle

\* lines 64-84; logging.basicConfig does nothing when the root logger
\* already has a handler
SetupBasicLogging(h, script_mode) ==
    LET log_level == determine_log_level(h)
        with_level == script_mode \/ log_level < DEBUG
    IN  /\ IF root_handlers = <<>>
             THEN /\ root_handlers' = <<"stream">>
                  /\ root_level' = IF with_level THEN log_level
                                                 ELSE root_level
             ELSE UNCHANGED <<root_handlers, root_level>>
        /\ pkg_level' = IF ~script_mode /\ log_level >= DEBUG
                          THEN log_level ELSE pkg_level
        /\ UNCHANGED <<w_queue, w_emitted, w_setups, outer_given, cvars, svars, lvars, fvars>>

SetupWorkerConfigNoLevel(filter_level) ==
    /\ WorkerCalls < MaxWorkerCalls
    /\ root_handlers' = Append(root_handlers, "queue")
    /\ w_setups' = Append(w_setups, filter_level)
    /\ UNCHANGED <<root_level, pkg_level, w_queue, w_emitted, outer_given,
                   cvars, svars, lvars, fvars>>

\* lines 151-154: a new QueueHandler is added to the root logger and the
\* root logger's level is set
SetupWorkerConfig(filter_level) ==
    /\ WorkerCalls < MaxWorkerCalls
    /\ root_handlers' = Append(root_handlers, "queue")
    /\ root_level' = filter_level
    /\ w_setups' = Append(w_setups, filter_level)
    /\ UNCHANGED <<pkg_level, w_queue, w_emitted, outer_given, cvars, svars, lvars, fvars>>

\* logging.getLogger(name).log(levelno, ...): dropped unless levelno reaches
\* the logger's effective level, else handed to the root's handlers
Emit(name, levelno) ==
    LET rec == [id |-> Len(w_emitted) + 1, name |-> name, levelno |-> levelno]
    IN  /\ WorkerCalls < MaxWorkerCalls
        /\ w_emitted' = Append(w_emitted,
                               [id |-> rec.id, name |-> name,
                                levelno |-> levelno, own |-> OwnLevel(name),
                                setups |-> w_setups])
        /\ w_queue' = IF levelno >= EffectiveLevel(name)
                        THEN w_queue \o QueuePuts(root_handlers, rec)
                        ELSE w_queue
        /\ UNCHANGED <<root_level, root_handlers, pkg_level, w_setups,
                       outer_given, cvars, svars, lvars, fvars>>

NextWorker ==
    \/ \E h \in {0, 4}, script_mode \in BOOLEAN :
          SetupBasicLogging(h, script_mode)
    \/ \E filter_level \in FilterLevels : SetupWorkerConfig(filter_level)
    \/ \E name \in LoggerNames, levelno \in EmitLevels : Emit(name, levelno)

SpecWorker == InitWorker /\ [][NextWorker]_vars

(***************************************************************************)
(* The configuration renderer, lines 97-148.  A level is None, a string or *)
(* an integer; a filename is None, a string or a path, held as its         *)
(* components.  Configurations live in memory under a reference, so that   *)
(* a change made through one reference shows through every alias of it.   *)
(***************************************************************************)
NoLevel == [kind |-> "none", s |-> "", n |-> 0]
StrLevel(s) == [kind |-> "str", s |-> s, n |-> 0]
IntLevel(n) == [kind |-> "int", s |-> "", n |-> n]

\* str.upper() on the level names used here
UpperStr(s) ==
    CASE s = "debug" -> "DEBUG"
      [] s = "info" -> "INFO"
      [] OTHER -> s

\* lines 98-101: upper() when the override is a string
Upper(l) == IF l.kind = "str" THEN StrLevel(UpperStr(l.s)) ELSE l

\* Python truth value of a level: None, "" and 0 are false
Truthy(l) == (l.kind = "str" /\ l.s # "") \/ (l.kind = "int" /\ l.n # 0)

\* line 109: level == 0 or level
ToCheck(l) == (l.kind = "int" /\ l.n = 0) \/ Truthy(l)

\* line 110: int(getattr(logging, str(level_name), level_name))
LevelNumber(l) ==
    IF l.kind = "int" THEN l.n
    ELSE CASE l.s = "DEBUG" -> DEBUG
           [] l.s = "INFO" -> INFO
           [] l.s = "WARNING" -> WARNING
           [] l.s = "ERROR" -> ERROR
           [] l.s = "CRITICAL" -> CRITICAL

MinOf(S) == CHOOSE m \in S : \A x \in S : m <= x

NoFile == [kind |-> "none", abs |-> FALSE, parts |-> <<>>]

\* truth value of a filename or path argument: None and "" are false
PathGiven(f) == f.kind = "path" \/ (f.kind = "str" /\ f.parts # <<>>)

\* str.format(**filename_args) on the components of a filename
Format(parts, run) ==
    [i \in 1 .. Len(parts) |-> IF parts[i] = "{run}.log" THEN run ELSE parts[i]]

\* copy.deepcopy: a new object with the same content under a new reference
deepcopy_alias(objs, ref) == <<objs, ref>>

deepcopy(objs, ref) == <<objs @@ ("copy" :> objs[ref]), "copy">>

\* lines 121-128 for one handler: the resolved path and its parent
ResolvedPath(log_handler, output_path, run) ==
    LET parts == Format(log_handler.filename.parts, run)
    IN  IF ~log_handler.filename.abs /\ PathGiven(output_path)
          THEN [kind |-> "path", abs |-> output_path.abs,
                parts |-> output_path.parts \o parts]
          ELSE [kind |-> "path", abs |-> log_handler.filename.abs,
                parts |-> parts]

ParentOf(path) ==
    [abs |-> path.abs, parts |-> SubSeq(path.parts, 1, Len(path.parts) - 1)]

\* lines 116-130, on the object under ref
setup_log_handler_paths(objs, ref, output_path, run) ==
    LET handlers == objs[ref].handlers
    IN  [objs EXCEPT ![ref].handlers =
            [h \in DOMAIN handlers |->
                IF PathGiven(handlers[h].filename)
                  THEN [handlers[h] EXCEPT !.filename =
                            ResolvedPath(handlers[h], output_path, run)]
                  ELSE handlers[h]]]

\* the directories line 127 makes for the object under ref
MadeDirs(objs, ref, output_path, run) ==
    {ParentOf(ResolvedPath(objs[ref].handlers[h], output_path, run)) :
        h \in {x \in DOMAIN objs[ref].handlers :
                  PathGiven(objs[ref].handlers[x].filename)}}

\* lines 103-106 for one handler
SetHandlerLevelDup(cfg, handler, lvl) ==
    IF Truthy(lvl)
      THEN [cfg EXCEPT !.handlers[handler].level = lvl,
                       !.root.handlers = Append(@, handler)]
      ELSE cfg

SetHandlerLevel(cfg, handler, lvl) ==
    IF Truthy(lvl)
      THEN [cfg EXCEPT !.handlers[handler].level = lvl,
                       !.root.handlers =
                           IF handler \in Range(@) THEN @
                                                   ELSE Append(@, handler)]
      ELSE cfg

\* lines 97-113, on the object under ref
setup_log_levels(objs, ref, file_level, console_level) ==
    LET f == Upper(file_level)
        c == Upper(console_level)
        cfg == SetHandlerLevel(SetHandlerLevel(objs[ref], "file", f),
                               "console", c)
        levels_tocheck == {l \in {f, c, cfg.root.level} : ToCheck(l)}
        level_min == MinOf({LevelNumber(l) : l \in levels_tocheck})
    IN  [objs EXCEPT ![ref] = [cfg EXCEPT !.root.level = IntLevel(level_min)]]

\* the templates, overrides and paths the renderer is called with
TemplateRootLevels == {StrLevel("WARNING"), StrLevel("INFO"), IntLevel(DEBUG)}

TemplateRootHandlers ==
    {<<>>, <<"console">>, <<"file">>, <<"console", "file">>,
     <<"file", "console">>}

TemplateFilenames ==
    {[kind |-> "str", abs |-> FALSE, parts |-> <<"log", "{run}.log">>],
     [kind |-> "str", abs |-> TRUE, parts |-> <<"var", "{run}.log">>],
     [kind |-> "str", abs |-> FALSE, parts |-> <<>>]}

Templates ==
    [handlers : [file : [level : {StrLevel("INFO"), StrLevel("DEBUG")},
                         filename : TemplateFilenames],
                 console : [level : {StrLevel("WARNING")},
                            filename : {NoFile}]],
     root : [level : TemplateRootLevels, handlers : TemplateRootHandlers]]

LevelOverrides ==
    {NoLevel, StrLevel(""), StrLevel("debug"), StrLevel("INFO"),
     IntLevel(0), IntLevel(DEBUG), IntLevel(ERROR)}

OutputPaths == {NoFile, [kind |-> "path", abs |-> TRUE, parts |-> <<"out">>]}

InitRender ==
    /\ r_in \in [log_config : {"template"},
                  template : Templates,
                  log_level_file : LevelOverrides,
                  log_level_console : LevelOverrides,
                  output_path : OutputPaths,
                  run : {"r7.log"}]
    /\ objects = ("template" :> r_in.template)
    /\ rendered = ""
    /\ dirs = {}
    /\ InitListener
    /\ exit_event = "none"
    /\ InitLevelIdle
    /\ InitWorkerIdle
    /\ InitSunsaverIdle

\* lines 133-148
RenderFullLogConfig ==
    LET cp == deepcopy(objects, r_in.log_config)
        log_config == cp[2]
        objs1 == setup_log_handler_paths(cp[1], log_config,
                                         r_in.output_path, r_in.run)
        objs2 == IF Truthy(r_in.log_level_file)
                       \/ Truthy(r_in.log_level_console)
                   THEN setup_log_levels(objs1, log_config,
                                         r_in.log_level_file,
                                         r_in.log_level_console)
                   ELSE objs1
    IN  /\ rendered = ""
        /\ objects' = objs2
        /\ rendered' = log_config
        /\ dirs' = dirs \cup MadeDirs(cp[1], log_config, r_in.output_path,
                                       r_in.run)
        /\ UNCHANGED <<r_in, outer_given, wvars, svars, lvars, fvars>>

NextRender == RenderFullLogConfig

SpecRender == InitRender /\ [][NextRender]_vars

(***************************************************************************)
(* sunsaver.py: decode_sunsaver_data, lines 116-158.  A register value is  *)
(* a 16-bit number or None; a decoded value is a record of its kind (t),   *)
(* its number (n: thousandths for V, A, W and F, tenths for Ah and AhL,    *)
(* with the upper 16 bits in hi) and, for the binary strings, its bits.    *)
(***************************************************************************)
REGISTER_VARIABLES ==
    <<<<"adc_vb_f", "V">>,
      <<"adc_va_f", "V">>,
      <<"adc_vl_f", "V">>,
      <<"adc_ic_f", "A">>,
      <<"adc_il_f", "A">>,
      <<"t_hs", "F">>,
      <<"t_batt", "F">>,
      <<"t_amb", "F">>,
      <<"t_rts", "F">>,
      <<"charge_state", "S">>,
      <<"array_fault", "B">>,
      <<"vb_f", "V">>,
      <<"vb_ref", "V">>,
      <<"ahc_r_hi", "HI">>,
      <<"ahc_r_lo", "AhL">>,
      <<"ahc_t_hi", "HI">>,
      <<"ahc_t_lo", "AhL">>,
      <<"kwhc", "Ah">>,
      <<"load_state", "S">>,
      <<"load_fault", "B">>,
      <<"v_lvd", "V">>,
      <<"ahl_r_hi", "HI">>,
      <<"ahl_r_lo", "AhL">>,
      <<"ahl_t_hi", "HI">>,
      <<"ahl_t_lo", "AhL">>,
      <<"hourmeter_hi", "HI">>,
      <<"hourmeter_lo", "hL">>,
      <<"alarm_hi", "HI">>,
      <<"alarm_lo", "BL">>,
      <<"dip_switch", "B">>,
      <<"led_state", "S">>,
      <<"power_out", "W">>,
      <<"sweep_vmp", "V">>,
      <<"sweep_pmax", "W">>,
      <<"sweep_voc", "V">>,
      <<"vb_min_daily", "V">>,
      <<"vb_max_daily", "V">>,
      <<"ahc_daily", "Ah">>,
      <<"ahl_daily", "Ah">>,
      <<"array_fault_daily", "B">>,
      <<"load_fault_daily", "B">>,
      <<"alarm_hi_daily", "HI">>,
      <<"alarm_Lo_daily", "BL">>,
      <<"vb_min", "V">>,
      <<"vb_max", "V">>>>

\* Python's None among the register values and as last_hi
NoneVal == -1

NA == [t |-> "NA", hi |-> 0, n |-> 0, bits |-> <<>>]

\* the types whose conversion takes (hi, lo)
PairTypes == {"BL", "AhL", "hL"}

\* round(a / b) for a, b >= 0, a tie to the even neighbour
RoundHalfEven(a, b) ==
    LET q == a \div b
        r == a % b
    IN  IF 2 * r < b THEN q
        ELSE IF 2 * r > b THEN q + 1
        ELSE IF q % 2 = 0 THEN q ELSE q + 1

\* format(val, "b").zfill(w) for val < 2^w
Bits(val, w) == [i \in 1 .. w |-> (val \div (2 ^ (w - i))) % 2]

\* lines 57-71 called as line 127 or 129 calls them: does the call raise
ConversionFails(var_type, last_hi, register_val) ==
    IF last_hi = NoneVal
      THEN \/ var_type \in PairTypes
           \/ (register_val = NoneVal /\ var_type \notin {"HI", "S"})
      ELSE \/ var_type \notin PairTypes
           \/ register_val = NoneVal

\* lines 57-71: the value a conversion that does not raise returns; the
\* 32-bit number (hi << 16) | lo is held as hi and n
Conversion(var_type, last_hi, register_val) ==
    CASE var_type = "S" ->
           [t |-> "str", hi |-> 0, n |-> register_val, bits |-> <<>>]
      [] var_type = "F" ->
           [t |-> "float", hi |-> 0, n |-> register_val * 1000, bits |-> <<>>]
      [] var_type = "B" ->
           [t |-> "bin", hi |-> 0, n |-> 0, bits |-> Bits(register_val, 16)]
      [] var_type = "BL" ->
           [t |-> "bin", hi |-> 0, n |-> 0,
            bits |-> Bits(last_hi, 16) \o Bits(register_val, 16)]
      [] var_type = "V" ->
           [t |-> "float", hi |-> 0,
            n |-> RoundHalfEven(register_val * 3125, 1024), bits |-> <<>>]
      [] var_type = "A" ->
           [t |-> "float", hi |-> 0,
            n |-> RoundHalfEven(register_val * 9895, 4096), bits |-> <<>>]
      [] var_type = "Ah" ->
           [t |-> "float", hi |-> 0, n |-> register_val, bits |-> <<>>]
      [] var_type = "AhL" ->
           [t |-> "float", hi |-> last_hi, n |-> register_val, bits |-> <<>>]
      [] var_type = "hL" ->
           [t |-> "int", hi |-> last_hi, n |-> register_val, bits |-> <<>>]
      [] var_type = "W" ->
           [t |-> "float", hi |-> 0,
            n |-> register_val * 15 + RoundHalfEven(register_val * 1615, 16384),
            bits |-> <<>>]

\* line 142: var_name.replace("_lo", "").replace("_lo_", "_")
Renamed(var_name) ==
    CASE var_name = "ahc_r_lo" -> "ahc_r"
      [] var_name = "ahc_t_lo" -> "ahc_t"
      [] var_name = "ahl_r_lo" -> "ahl_r"
      [] var_name = "ahl_t_lo" -> "ahl_t"
      [] var_name = "hourmeter_lo" -> "hourmeter"
      [] var_name = "alarm_lo" -> "alarm"
      [] OTHER -> var_name

\* sunsaver_data[key] = val
SetItem(sunsaver_data, key, val) ==
    [k \in DOMAIN sunsaver_data \cup {key} |->
        IF k = key THEN val ELSE sunsaver_data[k]]

\* lines 123-150: the loop from the i-th pair of the zip on
RECURSIVE DecodeFrom(_, _, _, _)
DecodeFrom(i, register_data, last_hi, sunsaver_data) ==
    IF i > Len(register_data) \/ i > Len(REGISTER_VARIABLES)
      THEN sunsaver_data
      ELSE LET var_name == REGISTER_VARIABLES[i][1]
               var_type == REGISTER_VARIABLES[i][2]
               register_val == register_data[i]
           IN  IF ConversionFails(var_type, last_hi, register_val)
                 THEN DecodeFrom(i + 1, register_data, NoneVal,
                                 SetItem(sunsaver_data, var_name, NA))
                 ELSE DecodeFrom(
                        i + 1, register_data,
                        IF var_type = "HI" THEN register_val ELSE NoneVal,
                        IF var_type = "HI" THEN sunsaver_data
                        ELSE SetItem(sunsaver_data, Renamed(var_name),
                                     Conversion(var_type, last_hi,
                                                register_val)))

\* line 156
AllNA == [k \in {REGISTER_VARIABLES[i][1] : i \in 1 .. Len(REGISTER_VARIABLES)}
            |-> NA]

\* register lists: one value everywhere, but for at most one None
RegisterLists ==
    {[i \in 1 .. n |-> IF i = none_at THEN NoneVal ELSE val] :
        n \in 0 .. MaxRegisters, none_at \in 0 .. MaxRegisters,
        val \in {0, 4660, 65535}}

\* None, an object without registers (an error response), a bare list, a
\* response object with a registers list
InitSunsaver ==
    /\ s_in \in [kind : {"none", "error"}, registers : {<<>>}]
                \cup [kind : {"list", "response"}, registers : RegisterLists]
    /\ s_out = <<>>
    /\ s_raised = ""
    /\ s_pc = "call"
    /\ InitListener
    /\ exit_event = "none"
    /\ InitLevelIdle
    /\ InitWorkerIdle
    /\ InitRenderIdle

\* lines 116-158
DecodeSunsaverData ==
    /\ s_pc = "call"
    /\ s_pc' = "done"
    /\ IF s_in.kind = "response" /\ s_in.registers = <<>>
         THEN /\ s_raised' = "IndexError"
              /\ UNCHANGED s_out
         ELSE /\ s_out' = IF s_in.kind \in {"none", "error"}
                             THEN AllNA
                             ELSE DecodeFrom(1, s_in.registers, NoneVal, <<>>)
              /\ UNCHANGED s_raised
    /\ UNCHANGED <<s_in, outer_given, wvars, cvars, lvars, fvars>>

NextSunsaver == DecodeSunsaverData

SpecSunsaver == InitSunsaver /\ [][NextSunsaver]_vars

TypeOK ==
    /\ pc \in {"config", "get", "drain", "close", "join", "shutdown",
               "check", "done"}
    /\ ret \in {"none", "record"}
    /\ exit_event \in {"none", "clear", "set"}
    /\ closed \in BOOLEAN /\ joined \in BOOLEAN /\ shut_down \in BOOLEAN
    /\ outer_exit_event \in BOOLEAN /\ drained \in BOOLEAN
    /\ faults \in 0 .. MaxEvents
    /\ sentinels \in 0 .. MaxEvents

(***************************************************************************)
(* Helpers of the properties.                                              *)
(***************************************************************************)
IsPrefix(a, b) == Len(a) <= Len(b) /\ \A i \in 1 .. Len(a) : a[i] = b[i]

IsOk(r) == r.ok

\* position in enq of the first sentinel, 0 when none was enqueued
FirstSentinelPos ==
    IF \E i \in 1 .. Len(enq) : enq[i] = Sentinel
      THEN CHOOSE i \in 1 .. Len(enq) :
             /\ enq[i] = Sentinel
             /\ \A j \in 1 .. (i - 1) : enq[j] # Sentinel
      ELSE 0

\* the records enqueued strictly before the first sentinel
BeforeSentinel == {enq[i] : i \in 1 .. (FirstSentinelPos - 1)}

\* the listener is past the drain and cleanup of lines 179-193
LeftDraining == outer_exit_event /\ pc \in {"shutdown", "check", "done"}

\* s keeps, for each worker, the order in which the worker emitted
PerProducerOrder(s) ==
    \A i, j \in 1 .. Len(s) :
        (i < j /\ s[i].prod = s[j].prod) => s[i].seq < s[j].seq

Count(s, m) == Cardinality({i \in 1 .. Len(s) : s[i] = m})

(***************************************************************************)
(* C1: started on a queue preloaded with R1..Rn and one sentinel, the      *)
(* listener passes R1..Rn to their loggers in the enqueued order, each     *)
(* once (those whose dispatch succeeds are delivered, in order), and only  *)
(* then logs the end of the shutdown and tears logging down, with the      *)
(* queue closed; it does not stop anywhere else.                           *)
(***************************************************************************)
C1_PreloadedDelivery ==
    LET preload == SubSeq(enq, 1, Len(enq) - 1)
    IN  /\ IsPrefix(dispatched, preload)
        /\ delivered = SelectSeq(dispatched, IsOk)
        /\ late = <<>>
        /\ shut_down =>
             /\ dispatched = preload
             /\ closed /\ joined
             /\ log[Len(log)] = MsgShutDown
             /\ Count(log, MsgShutDown) = 1
        /\ (~ENABLED NextPre) =>
             pc = "done" /\ shut_down /\ closed /\ raised = ""

C1_Witness ==
    /\ pc = "done" /\ shut_down /\ closed
    /\ Len(dispatched) = MaxPreload
    /\ Len(delivered) = MaxPreload - 1

(***************************************************************************)
(* C2: once the listener has left the drain, every record enqueued before  *)
(* the first sentinel was passed to its logger or reported as late.        *)
(***************************************************************************)
C2_NoSilentDiscard ==
    LeftDraining =>
        \A r \in BeforeSentinel : r \in Range(dispatched) \cup Range(late)

C2_Witness ==
    /\ LeftDraining
    /\ Cardinality(BeforeSentinel) = 2
    /\ \E r1, r2 \in BeforeSentinel : r1.prod # r2.prod

(***************************************************************************)
(* C3 as stated, for the records that arrive while the queue is still      *)
(* open: when the listener has returned (from a run in which the queue     *)
(* never failed), every record enqueued after it took the sentinel and     *)
(* before it closed the queue was reported as late, and none was passed to *)
(* its logger.                                                             *)
(***************************************************************************)
C3_Original ==
    (pc = "done" /\ faults = 0) =>
        \A r \in put_open : r \in Range(late) /\ r \notin Range(dispatched)

(***************************************************************************)
(* C3 amended: no record enqueued after the listener took the sentinel is  *)
(* passed to its logger, nothing is both reported late and dispatched, and *)
(* once the drain loop has found the queue empty every record enqueued     *)
(* between the taking of the sentinel and that moment was reported late.   *)
(***************************************************************************)
C3_LateRecords ==
    /\ \A r \in put_after : r \notin Range(dispatched)
    /\ Range(late) \cap Range(dispatched) = {}
    /\ drained => put_drain \subseteq Range(late)
    /\ Count(log, MsgLate) = Len(late)

C3_Witness ==
    /\ pc = "done"
    /\ drained
    /\ put_drain # {}
    /\ put_open # put_drain

(***************************************************************************)
(* C4: a failing dispatch is answered by one warning and nothing else: the *)
(* listener goes on to the next call with the shutdown state untouched, no *)
(* exception leaves it, every record whose dispatch succeeds is delivered  *)
(* whatever failed before it, and when the sentinel has been taken every   *)
(* well-formed record enqueued before it has been delivered.               *)
(***************************************************************************)
C4_DispatchFailure ==
    /\ raised = ""
    /\ delivered = SelectSeq(dispatched, IsOk)
    /\ Count(log, MsgDispatchWarning) = Len(dispatched) - Len(delivered)
    /\ (/\ pc = "check" /\ ret = "record"
        /\ ~dispatched[Len(dispatched)].ok) =>
            /\ log[Len(log)] = MsgDispatchWarning
            /\ ~outer_exit_event /\ ~closed /\ ~shut_down
            /\ ~LoopExits
    /\ outer_exit_event =>
         \A r \in BeforeSentinel : r.ok => r \in Range(delivered)

C4_Witness ==
    /\ pc = "get"
    /\ Len(dispatched) = 3
    /\ dispatched[1].ok /\ ~dispatched[2].ok /\ dispatched[3].ok
    /\ delivered = <<dispatched[1], dispatched[3]>>

SentinelQueued == Sentinel \in Range(log_queue)

StoppedNormally == pc = "done" /\ shut_down /\ raised = ""

C6_Original == (SentinelQueued /\ pc # "done") ~> StoppedNormally

(***************************************************************************)
(* C6 amended: whenever a sentinel is in the queue, the listener           *)
(* eventually has shut down and returned without an exception, unless the  *)
(* caller's exit_event gets set; once it has returned it takes nothing     *)
(* from the queue.                                                         *)
(***************************************************************************)
C6_Termination ==
    /\ SentinelQueued ~> (StoppedNormally \/ exit_event = "set")
    /\ [][pc = "done" =>
            (pc' = "done" /\ IsPrefix(log_queue, log_queue'))]_vars

C6_Witness ==
    /\ StoppedNormally
    /\ exit_event # "set"
    /\ Len(dispatched) = 2

(***************************************************************************)
(* C7: the blocking get never waits for ever (with an empty queue it times *)
(* out); a loop that ended without a sentinel taken ended at a call that   *)
(* returned no item with exit_event set, and left the queue open, logging  *)
(* up, and the drain not entered; with exit_event set and no sentinel the  *)
(* loop does end.                                                          *)
(***************************************************************************)
C7_ExitEventPath ==
    /\ [](pc = "get" => ENABLED (GetRecord \/ GetSentinel \/ GetTimeout))
    /\ []((pc = "done" /\ ~outer_exit_event) =>
            /\ exit_event = "set" /\ ret = "none"
            /\ ~closed /\ ~joined /\ ~shut_down /\ ~drained
            /\ late = <<>>
            /\ Count(log, MsgShuttingDown) = 0)
    /\ (exit_event = "set" /\ sentinels = 0)
          ~> (pc = "done" \/ sentinels > 0)

C7_Witness ==
    /\ pc = "done"
    /\ ~outer_exit_event
    /\ exit_event = "set"
    /\ sentinels = 0
    /\ Len(delivered) > 0

(***************************************************************************)
(* C8: the records of one worker are passed to the loggers, and delivered, *)
(* in the order in which that worker emitted them.                         *)
(***************************************************************************)
C8_PerProducerOrder ==
    /\ PerProducerOrder(dispatched)
    /\ PerProducerOrder(delivered)

C8_Witness ==
    /\ Len(delivered) = 3
    /\ delivered[1].prod = delivered[3].prod
    /\ delivered[2].prod # delivered[1].prod

(***************************************************************************)
(* Helpers of the properties of determine_log_level.                       *)
(***************************************************************************)
\* the least and the greatest threshold of the table
MostPermissive == CHOOSE x \in Range2(LOG_LEVEL) :
                    \A y \in Range2(LOG_LEVEL) : x <= y

MostSevere == CHOOSE x \in Range2(LOG_LEVEL) :
                \A y \in Range2(LOG_LEVEL) : x >= y

(***************************************************************************)
(* C9: determine_log_level clamps (at and below MIN_VERBOSE the result is  *)
(* that of MIN_VERBOSE, at and above MAX_VERBOSE that of MAX_VERBOSE) and  *)
(* is monotone (a greater verbosity never gives a greater threshold).      *)
(***************************************************************************)
C9_ClampMonotone ==
    level # <<>> =>
        /\ \A i \in 1 .. 2 :
             /\ verbose[i] <= 2 * MIN_VERBOSE =>
                  level[i] = determine_log_level(2 * MIN_VERBOSE)
             /\ verbose[i] >= 2 * MAX_VERBOSE =>
                  level[i] = determine_log_level(2 * MAX_VERBOSE)
        /\ verbose[1] <= verbose[2] => level[2] <= level[1]

C9_Witness ==
    /\ level # <<>>
    /\ verbose[1] = 2 * (MIN_VERBOSE - 2)
    /\ verbose[2] = 2 * (MAX_VERBOSE + 2)
    /\ level[2] < level[1]

(***************************************************************************)
(* C10 as stated: above MAX_VERBOSE the threshold is greater than          *)
(* CRITICAL, below MIN_VERBOSE it is the most permissive of the table.     *)
(***************************************************************************)
C10_Original ==
    level # <<>> =>
        \A i \in 1 .. 2 :
            /\ verbose[i] > 2 * MAX_VERBOSE => level[i] > CRITICAL
            /\ verbose[i] < 2 * MIN_VERBOSE => level[i] = MostPermissive

(***************************************************************************)
(* C10 amended: the ends are the other way round.  Above MAX_VERBOSE the   *)
(* threshold is the most permissive of the table (2, below DEBUG); below   *)
(* MIN_VERBOSE it is the greatest of the table and greater than CRITICAL,  *)
(* which disables all emission.                                            *)
(***************************************************************************)
C10_ClampEnds ==
    level # <<>> =>
        \A i \in 1 .. 2 :
            /\ PyRound(verbose[i]) > MAX_VERBOSE =>
                 level[i] = MostPermissive /\ level[i] < DEBUG
            /\ PyRound(verbose[i]) < MIN_VERBOSE =>
                 level[i] = MostSevere /\ level[i] > CRITICAL

C10_Witness ==
    /\ level # <<>>
    /\ verbose[1] = 2 * MaxVerboseInput
    /\ verbose[2] = -2 * MaxVerboseInput
    /\ level[1] < DEBUG
    /\ level[2] > CRITICAL

(***************************************************************************)
(* Helpers of the properties of the shutdown sequence.                     *)
(***************************************************************************)
\* positions of message m in the listener's log
Positions(m) == {i \in 1 .. Len(log) : log[i] = m}

\* every m1 in the log comes before every m2
AllBefore(m1, m2) == \A i \in Positions(m1), j \in Positions(m2) : i < j

(***************************************************************************)
(* C16 as stated: the step that closes the queue is taken by the listener  *)
(* after it took the sentinel, and finds the queue empty.                  *)
(***************************************************************************)
C16_Original ==
    [][(closed' /\ ~closed) =>
          (pc = "close" /\ outer_exit_event /\ log_queue = <<>>)]_vars

(***************************************************************************)
(* C16 amended: the queue is closed only by the listener, only after it    *)
(* took the sentinel and its drain loop found the queue empty; a worker    *)
(* may have put a record since, so the queue need not be empty when it is  *)
(* closed.                                                                 *)
(***************************************************************************)
C16_ClosedByListener ==
    /\ [](closed => (drained /\ outer_exit_event))
    /\ [][(closed' # closed) =>
            /\ closed'
            /\ pc = "close" /\ pc' = "join"
            /\ drained /\ outer_exit_event
            /\ log_queue' = log_queue]_vars

C16_Witness ==
    /\ closed
    /\ pc = "join"
    /\ log_queue # <<>>
    /\ put_open # put_drain

(***************************************************************************)
(* C17: a failure of the drain, of close() or of join_thread() is logged   *)
(* and leaves no exception behind; the listener goes on to log the end of  *)
(* the shutdown and to tear logging down, with outer_exit_event still set, *)
(* and returns.                                                            *)
(***************************************************************************)
C17_CleanupFailure ==
    /\ [](Positions(MsgCleanupError) # {} =>
            /\ raised = ""
            /\ outer_exit_event
            /\ AllBefore(MsgShuttingDown, MsgCleanupError)
            /\ AllBefore(MsgCleanupError, MsgShutDown)
            /\ pc \in {"shutdown", "check", "done"}
            /\ pc # "shutdown" => (shut_down /\ log[Len(log)] = MsgShutDown))
    /\ (Positions(MsgCleanupError) # {}) ~>
          (pc = "done" /\ shut_down /\ outer_exit_event /\ raised = "")

C17_Witness ==
    /\ pc = "done"
    /\ shut_down
    /\ outer_exit_event
    /\ Positions(MsgCleanupError) # {}
    /\ drained
    /\ ~closed

(***************************************************************************)
(* C18 as stated: called without an outer_exit_event, the only exception   *)
(* handle_queued_log_record raises is StopIteration, and it raises it      *)
(* after the queue was drained and closed and logging torn down.           *)
(***************************************************************************)
C18_Original ==
    (~outer_given /\ raised # "") =>
        (raised = "StopIteration" /\ drained /\ closed /\ shut_down)

(***************************************************************************)
(* C19: the shutdown runs at most once and in order: outer_exit_event set  *)
(* and "Shutting down" logged, then the late items and the close, then     *)
(* "shut down" logged and logging torn down, after which the listener      *)
(* logs and closes nothing more; a sentinel is never dispatched (an extra  *)
(* one found by the drain is reported late); no record is dispatched once  *)
(* outer_exit_event is set.                                                *)
(***************************************************************************)
C19_ShutdownOnce ==
    /\ [](/\ Cardinality(Positions(MsgShuttingDown)) <= 1
          /\ Cardinality(Positions(MsgShutDown)) <= 1
          /\ outer_exit_event <=> Positions(MsgShuttingDown) # {}
          /\ shut_down <=> Positions(MsgShutDown) # {}
          /\ closed => (drained /\ outer_exit_event)
          /\ drained => outer_exit_event
          /\ AllBefore(MsgShuttingDown, MsgLate)
          /\ AllBefore(MsgShuttingDown, MsgShutDown)
          /\ AllBefore(MsgLate, MsgShutDown)
          /\ AllBefore(MsgDispatchWarning, MsgShuttingDown)
          /\ Sentinel \notin Range(dispatched)
          /\ Cardinality(Positions(MsgLate)) = Len(late))
    /\ [][outer_exit_event =>
            (dispatched' = dispatched /\ delivered' = delivered)]_vars
    /\ [][shut_down =>
            (shut_down' /\ log' = log /\ closed' = closed
                        /\ late' = late)]_vars

C19_Witness ==
    /\ pc = "done"
    /\ shut_down
    /\ closed
    /\ Sentinel \in Range(late)
    /\ Len(dispatched) = 1

(***************************************************************************)
(* Helpers of the worker properties.                                       *)
(***************************************************************************)
\* how many times the record numbered id is on the worker's queue
TimesQueued(id) == Cardinality({i \in 1 .. Len(w_queue) : w_queue[i].id = id})

\* the record was emitted after setup_worker_config, min its filter_level
MinSeverity(e) == e.setups[Len(e.setups)]

(***************************************************************************)
(* C11 as stated: after two setup_worker_config calls with the same        *)
(* filter_level, a record emitted at or above it through a logger with no  *)
(* level of its own is on the queue exactly once.                          *)
(***************************************************************************)
C11_Original ==
    \A i \in 1 .. Len(w_emitted) :
        LET e == w_emitted[i]
        IN  (/\ Len(e.setups) = 2
             /\ e.setups[1] = e.setups[2]
             /\ e.own = 0
             /\ e.levelno >= MinSeverity(e)) => TimesQueued(e.id) = 1

(***************************************************************************)
(* C12 as stated: a record emitted after setup_worker_config is on the     *)
(* queue when its severity is at or above filter_level and is not when it  *)
(* is below, whichever logger emitted it.                                  *)
(***************************************************************************)
C12_Original ==
    \A i \in 1 .. Len(w_emitted) :
        LET e == w_emitted[i]
        IN  e.setups # <<>> =>
              (TimesQueued(e.id) > 0 <=> e.levelno >= MinSeverity(e))

(***************************************************************************)
(* C12 amended: setup_worker_config sets the root logger's level only.  A  *)
(* record emitted after it through a logger that has no level of its own   *)
(* (nor has a named ancestor) is on the queue exactly when its severity is *)
(* at or above filter_level; through a logger that has, exactly when it is *)
(* at or above that logger's level.                                        *)
(***************************************************************************)
C12_RootThreshold ==
    /\ w_setups # <<>> => root_level = w_setups[Len(w_setups)]
    /\ \A i \in 1 .. Len(w_emitted) :
         LET e == w_emitted[i]
         IN  e.setups # <<>> =>
               /\ e.own = 0 =>
                    (TimesQueued(e.id) > 0 <=> e.levelno >= MinSeverity(e))
               /\ e.own # 0 =>
                    (TimesQueued(e.id) > 0 <=> e.levelno >= e.own)

C12_Witness ==
    /\ Len(w_setups) = 1
    /\ \E i, j \in 1 .. Len(w_emitted) :
         /\ w_emitted[i].name = "other" /\ w_emitted[j].name = "other"
         /\ w_emitted[i].setups # <<>> /\ w_emitted[j].setups # <<>>
         /\ w_emitted[i].levelno >= w_setups[1]
         /\ w_emitted[j].levelno < w_setups[1]
         /\ TimesQueued(w_emitted[i].id) = 1
         /\ TimesQueued(w_emitted[j].id) = 0

(***************************************************************************)
(* Helpers of the renderer properties.                                     *)
(***************************************************************************)
HandlerNames == {"file", "console"}

Override(h) ==
    IF h = "file" THEN r_in.log_level_file ELSE r_in.log_level_console

\* the overrides line 109 takes into the minimum
Supplied == {Upper(Override(h)) : h \in {x \in HandlerNames : ToCheck(Override(x))}}

\* the handlers absent from the template's list that have an override, in
\* the order of line 102
Appended ==
    SelectSeq(<<"file", "console">>,
              LAMBDA h : Truthy(Override(h))
                           /\ h \notin Range(r_in.template.root.handlers))

TimesListed(list, h) == Cardinality({i \in 1 .. Len(list) : list[i] = h})

(***************************************************************************)
(* C13: the object the caller passed holds after the call what it held     *)
(* before it (handler levels, filenames, root level, handler list); the    *)
(* result is another object.                                               *)
(***************************************************************************)
C13_TemplateUnchanged ==
    /\ objects[r_in.log_config] = r_in.template
    /\ rendered # "" =>
         (rendered # r_in.log_config /\ rendered \in DOMAIN objects)

C13_Witness ==
    /\ rendered # ""
    /\ objects[rendered].root # r_in.template.root
    /\ objects[rendered].handlers["file"].level
         # r_in.template.handlers["file"].level
    /\ objects[rendered].handlers["file"].filename
         # r_in.template.handlers["file"].filename

(***************************************************************************)
(* C14 as stated: when an override is supplied, the rendered root level is *)
(* the numeric minimum of the template's root level and the supplied       *)
(* overrides.                                                              *)
(***************************************************************************)
C14_Original ==
    (rendered # "" /\ Supplied # {}) =>
        LevelNumber(objects[rendered].root.level) =
            MinOf({LevelNumber(l) : l \in Supplied \cup {r_in.template.root.level}})

(***************************************************************************)
(* C15: a handler with a non-empty override has the (upper-cased) override *)
(* as its level and is in the root's handler list exactly once; the list   *)
(* is the template's list followed by the handlers that were absent, file  *)
(* before console; a handler without one keeps its level and membership.   *)
(***************************************************************************)
C15_HandlerOverrides ==
    rendered # "" =>
        LET out == objects[rendered]
        IN  /\ out.root.handlers = r_in.template.root.handlers \o Appended
            /\ \A h \in HandlerNames :
                 IF Truthy(Override(h))
                   THEN /\ out.handlers[h].level = Upper(Override(h))
                        /\ TimesListed(out.root.handlers, h) = 1
                   ELSE /\ out.handlers[h].level = r_in.template.handlers[h].level
                        /\ TimesListed(out.root.handlers, h)
                             = TimesListed(r_in.template.root.handlers, h)

C15_Witness ==
    /\ rendered # ""
    /\ r_in.template.root.handlers = <<"console">>
    /\ r_in.log_level_file = StrLevel("debug")
    /\ r_in.log_level_console = IntLevel(ERROR)
    /\ objects[rendered].root.handlers = <<"console", "file">>
    /\ objects[rendered].handlers["file"].level = StrLevel("DEBUG")

(***************************************************************************)
(* C20 as stated: decode_sunsaver_data always returns, by a mapping whose  *)
(* keys are among the (renamed) register names, and never raises; for an   *)
(* input that cannot be iterated every name of REGISTER_VARIABLES maps to  *)
(* "NA".                                                                   *)
(***************************************************************************)
C20_Original ==
    s_pc = "done" =>
        /\ s_raised = ""
        /\ s_in.kind \in {"none", "error"} => s_out = AllNA
        /\ Len(s_in.registers) >= Len(REGISTER_VARIABLES) =>
              \A i \in 1 .. Len(REGISTER_VARIABLES) :
                  REGISTER_VARIABLES[i][2] # "HI" =>
                      \/ Renamed(REGISTER_VARIABLES[i][1]) \in DOMAIN s_out
                      \/ REGISTER_VARIABLES[i][1] \in DOMAIN s_out

====
